---- MODULE Spec2Model ----
(***************************************************************************)
(* The HTTP gateway of f8/browser (browser.go): fileBrowser, the handler   *)
(* registered for fbBaseURL+"/*", which rebuilds each inbound request for  *)
(* the file browser on localhost:8080, intercepts logins, upgrades the     *)
(* command endpoint to a websocket and relays the backend's response.      *)
(*                                                                         *)
(* Strings that the code searches or splits (paths, URLs, bodies) are      *)
(* sequences of tokens, so that strings.Contains, strings.Split, url.Parse *)
(* and json.Decoder are computed rather than assumed.  Objects the code    *)
(* reaches through pointers (url.URL, http.Header, the body reader) live   *)
(* in small heaps indexed by reference, so that aliasing is visible.       *)
(***************************************************************************)
EXTENDS Integers, Sequences, FiniteSets, TLC

\* ------------------------------------------------------------------ bounds

\* Longest list of values a generated header carries under one name.
MaxValues == 2

\* Most messages a peer of the upgrade bridge sends on its connection.
MaxMsgs == 2

\* Most bytes a peer of the byte-stream forwarder sends on its connection.
MaxBytes == 2

\* Largest bucket count, and longest list of bucket names, NewBase is given.
MaxBuckets == 3

\* ------------------------------------------------------- program constants

fbBaseURL == <<"/", "admin">>

fbAuthHeader == "X-Generic-AppName"

\* url.Scheme = "http"; url.Host = "localhost:8080"
BackendScheme == "http"

BackendHost == "localhost:8080"

\* url.Scheme = "ws" on the command path
WsScheme == "ws"

\* The status net/http commits when a handler writes a body (or returns)
\* without having called WriteHeader.
StatusOK == 200

\* ---------------------------------------------------------------- headers

HeaderNames ==
    {"Accept", "Host", "X-Forwarded-For", "X-Generic-Appname", "Content-Type", "Set-Cookie"}

EmptyHeader == [n \in HeaderNames |-> <<>>]

\* textproto.CanonicalMIMEHeaderKey on the names the handler uses: the first
\* letter and every letter after a hyphen upper case, the rest lower case.
CanonicalMIMEHeaderKey(k) ==
    IF k = "X-Generic-AppName" THEN "X-Generic-Appname" ELSE k

\* Header.Set gone wrong: the value is appended to those already there.
HeaderSet_Append(h, k, v) == [h EXCEPT ![CanonicalMIMEHeaderKey(k)] = Append(@, v)]

\* http.Header.Set
HeaderSet(h, k, v) == [h EXCEPT ![CanonicalMIMEHeaderKey(k)] = <<v>>]

\* http.Header.Add
HeaderAdd(h, k, v) == [h EXCEPT ![CanonicalMIMEHeaderKey(k)] = Append(@, v)]

\* ------------------------------------------------------- strings as tokens

\* strings.Contains
Contains(s, sub) ==
    \E i \in 1..(Len(s) - Len(sub) + 1) : SubSeq(s, i, i + Len(sub) - 1) = sub

\* The positions of token t in s.
Positions(s, t) == {i \in 1..Len(s) : s[i] = t}

Max(S) == CHOOSE x \in S : \A y \in S : y <= x

Min(S) == CHOOSE x \in S : \A y \in S : x <= y

\* The last element of strings.Split(s, sep): uparts[len(uparts)-1].
LastPart(s, sep) ==
    IF Positions(s, sep) = {} THEN s
    ELSE SubSeq(s, Max(Positions(s, sep)) + 1, Len(s))

\* -------------------------------------------------------------------- URLs

\* URL.String()
URLString(u) ==
    (IF u.Scheme # "" THEN <<u.Scheme, ":">> ELSE <<>>)
    \o (IF u.Host # "" THEN <<"//", u.Host>> ELSE <<>>)
    \o u.Path
    \o (IF u.RawQuery # <<>> THEN <<"?">> \o u.RawQuery ELSE <<>>)

\* url.Parse, as http.NewRequest applies it to url.String()
URLParse(s) ==
    LET hasScheme == Len(s) >= 2 /\ s[2] = ":"
        s1 == IF hasScheme THEN SubSeq(s, 3, Len(s)) ELSE s
        hasHost == Len(s1) >= 2 /\ s1[1] = "//"
        s2 == IF hasHost THEN SubSeq(s1, 3, Len(s1)) ELSE s1
        q == Positions(s2, "?")
    IN  [Scheme |-> IF hasScheme THEN s[1] ELSE "",
         Host |-> IF hasHost THEN s1[2] ELSE "",
         Path |-> IF q = {} THEN s2 ELSE SubSeq(s2, 1, Min(q) - 1),
         RawQuery |-> IF q = {} THEN <<>> ELSE SubSeq(s2, Min(q) + 1, Len(s2))]

NilURL == [Scheme |-> "", Host |-> "", Path |-> <<>>, RawQuery |-> <<>>]

\* ------------------------------------------------------------- JSON bodies

\* A body is a sequence of tokens: the braces and commas of an object, whole
\* members ("username":"alice" is Str("username", "alice"), "username":1 is
\* Num("username")) and Junk, a byte that starts no JSON value.
LBrace == [t |-> "{", k |-> "", v |-> ""]

RBrace == [t |-> "}", k |-> "", v |-> ""]

Comma == [t |-> ",", k |-> "", v |-> ""]

Junk == [t |-> "junk", k |-> "", v |-> ""]

Str(key, val) == [t |-> "str", k |-> key, v |-> val]

Num(key) == [t |-> "num", k |-> key, v |-> "1"]

\* type User struct { Username, Password }, zero value
ZeroUser == [Username |-> "", Password |-> ""]

\* The scanner of json.Decoder.readValue inside an object: the index of the
\* closing brace of the value that starts the input, 0 on a syntax error or
\* when the input ends first.  It stops at the closing brace and never looks
\* at what follows it.
RECURSIVE ScanObject(_, _, _)
ScanObject(b, i, st) ==
    IF i > Len(b) THEN 0
    ELSE IF b[i].t = "}" /\ st \in {"first", "member"} THEN i
    ELSE IF b[i].t \in {"str", "num"} /\ st \in {"first", "comma"}
         THEN ScanObject(b, i + 1, "member")
    ELSE IF b[i].t = "," /\ st = "member" THEN ScanObject(b, i + 1, "comma")
    ELSE 0

ReadValue(b) ==
    IF b = <<>> THEN 0
    ELSE IF b[1].t = "{" THEN ScanObject(b, 2, "first")
    ELSE 0

\* Unmarshal of the members b[i..end] into us: a string member named after
\* a field is stored, other names are ignored, a number for a string field is
\* an UnmarshalTypeError (decoding goes on, the error is returned).
RECURSIVE UnmarshalMembers(_, _, _, _, _)
UnmarshalMembers(b, i, end, us, err) ==
    IF i >= end THEN [err |-> err, us |-> us, end |-> end]
    ELSE LET m == b[i]
             known == m.k \in {"username", "password"}
             us1 == IF m.t = "str" /\ m.k = "username" THEN [us EXCEPT !.Username = m.v]
                    ELSE IF m.t = "str" /\ m.k = "password" THEN [us EXCEPT !.Password = m.v]
                    ELSE us
         IN  UnmarshalMembers(b, i + 1, end, us1, err \/ (m.t = "num" /\ known))

\* json.NewDecoder(req.Body).Decode(&us): decodes the first JSON value of the
\* stream.  err is TRUE when Decode returns an error; end is the number of
\* tokens the value spans.
Decode(b) ==
    LET end == ReadValue(b)
    IN  IF end = 0 THEN [err |-> TRUE, us |-> ZeroUser, end |-> 0]
        ELSE UnmarshalMembers(b, 2, end, ZeroUser, FALSE)

\* -------------------------------------------------------------- MIME types

\* The type table gone wrong: the bare media type, without the charset.
TypeByExtension_NoCharset(ext) ==
    IF ext = <<".", "css">> THEN "text/css"
    ELSE IF ext = <<".", "txt">> THEN "text/plain"
    ELSE ""

\* mime.TypeByExtension: Go's table gives every text type a charset
\* parameter, ".css" included.
TypeByExtension(ext) ==
    IF ext = <<".", "css">> THEN "text/css; charset=utf-8"
    ELSE IF ext = <<".", "txt">> THEN "text/plain; charset=utf-8"
    ELSE ""

\* uparts := strings.Split(url.String(), "."); ext := "." + uparts[len(uparts)-1]
Ext(urlString) == <<".">> \o LastPart(urlString, ".")

\* ------------------------------------------------------------------ inputs

Methods == {"GET", "POST"}

\* Request paths the route fbBaseURL+"/*" hands to fileBrowser.
Paths ==
    {fbBaseURL \o <<"/", "files", "/", "a", ".", "txt">>,
     fbBaseURL \o <<"/", "api", "/", "login">>,
     fbBaseURL \o <<"/", "api", "/", "command", "/", "ls">>,
     fbBaseURL \o <<"/", "static", "/", "app", ".", "css">>,
     fbBaseURL \o <<"/", "api", "/", "command", "/", "login">>,
     fbBaseURL \o <<"/", "files", "/", "login", "-notes", ".", "txt">>}

Queries == {<<>>, <<"v=1", ".", "css">>}

\* All lists of at most n values drawn from S.
RECURSIVE Lists(_, _)
Lists(S, n) ==
    IF n = 0 THEN {<<>>}
    ELSE Lists(S, n - 1) \cup {Append(l, x) : l \in {m \in Lists(S, n - 1) : Len(m) = n - 1}, x \in S}

\* Header sets a caller may send.  net/http stores the names canonically and
\* moves Host out of the map into req.Host.
InHeaders ==
    {[n \in HeaderNames |->
        IF n = "Accept" THEN a
        ELSE IF n = "X-Forwarded-For" THEN x
        ELSE IF n = "X-Generic-Appname" THEN g
        ELSE <<>>] :
     a \in Lists({"text/html", "image/png"}, MaxValues),
     x \in {<<>>, <<"203.0.113.9">>},
     g \in {<<>>, <<"admin">>}}

Bodies ==
    {<<>>,
     <<LBrace, Str("username", "alice"), Comma, Str("password", "pw"), RBrace>>,
     <<LBrace, Str("username", "bob"), Comma, Str("password", "guess"), RBrace>>,
     <<LBrace, Str("username", "alice"), Comma, Str("password", "pw"), RBrace, Junk>>,
     <<LBrace, Str("username", "alice"), Comma>>,
     <<LBrace, Num("username"), RBrace>>,
     <<Junk>>}

InHost == "fate.example"

InRemoteAddr == "198.51.100.7:51000"

BackendStatuses == {200, 404}

\* Header sets the backend may answer with.
OutHeaders ==
    {[n \in HeaderNames |->
        IF n = "Content-Type" THEN c
        ELSE IF n = "Set-Cookie" THEN k
        ELSE <<>>] :
     c \in Lists({"text/plain", "text/css"}, MaxValues),
     k \in {<<>>, <<"sid=1", "lang=en">>}}

Responses ==
    {[Status |-> st, Header |-> h, Body |-> <<"payload">>] :
     st \in BackendStatuses, h \in OutHeaders}

\* ------------------------------------------------------------------- state

VARIABLES
    running,    \* the gateway process is alive
    pc,         \* where the handling task stands in fileBrowser
    req,        \* the inbound *http.Request; URL, Header and Body are references
    orig,       \* the request as the caller sent it, by value
    urlObj,     \* the url.URL objects, by reference
    hdrObj,     \* the http.Header maps, by reference
    bodyObj,    \* the body readers, by reference: the bytes and how many were read
    proxyReq,   \* the outbound request built by http.NewRequest
    sent,       \* the outbound request as the backend received it
    proxyRes,   \* the backend's response
    w,          \* the http.ResponseWriter: what the caller receives
    clientC,    \* the upgraded connection to the caller
    fbC,        \* the websocket connection to the backend
    clientMsgs, \* the messages written to the caller on clientC
    affirms,    \* what the identity lookup would answer for this credential
    outcome,    \* how the handling task ended
    callerSent, \* the messages the caller has sent on clientC
    backendSent,\* the messages the backend has sent on fbC
    fbMsgs,     \* the messages written to the backend on fbC
    fwd,        \* Forwarding: where the accept loop stands
    hr,         \* per pair: where handleRequest stands
    sock,       \* per pair: the state of conn and of proxy
    cp,         \* per pair and direction: where copyIO stands
    sentBy,     \* per pair and connection: the bytes its peer has sent
    pend,       \* per pair and connection: the bytes received and not yet read
    eof,        \* per pair and connection: the peer has ended its stream
    got,        \* per pair and connection: the bytes written to it
    entPc,      \* NewBase: not called, or returned
    given,      \* NewBase: the options the caller passed
    ent,        \* NewBase: the entity returned, or the nil pointer
    entErr      \* NewBase: the error returned, or the empty string for nil

\* The state of the byte-stream forwarder.
fwdVars == <<fwd, hr, sock, cp, sentBy, pend, eof, got>>

\* The state of the HTTP gateway.
gwVars ==
    <<running, pc, req, orig, urlObj, hdrObj, bodyObj, proxyReq, sent, proxyRes, w,
      clientC, fbC, clientMsgs, affirms, outcome, callerSent, backendSent, fbMsgs>>

\* What no step of the HTTP gateway touches.
\* The state of a call to entity.NewBase.
baseVars == <<entPc, given, ent, entErr>>

notGateway == <<fwdVars, baseVars>>

vars == <<gwVars, notGateway>>

\* What the peers of the upgrade bridge did, and what reached the backend.
bridgeVars == <<callerSent, backendSent, fbMsgs>>

\* References: 0 is nil.
ReqURLRef == 1

ProxyURLRef == 2

ReqHeaderRef == 1

NewHeaderRef == 2

ReqBodyRef == 1

NoRequest ==
    [Method |-> "", URL |-> 0, Header |-> 0, Body |-> 0, Host |-> "", RemoteAddr |-> "",
     Handshake |-> FALSE]

NoOrig ==
    [Method |-> "", URL |-> NilURL, Header |-> EmptyHeader, Body |-> <<>>, Host |-> "",
     RemoteAddr |-> ""]

NoProxyReq == [Method |-> "", URL |-> 0, Header |-> 0, Body |-> 0]

NotSent == [ok |-> FALSE, Method |-> "", URL |-> <<>>, Header |-> EmptyHeader, Body |-> <<>>]

NoResponse == [Status |-> 0, Header |-> EmptyHeader, Body |-> <<>>]

\* Nothing written: no status committed, no header, no body.
FreshWriter == [Status |-> 0, Header |-> EmptyHeader, Body |-> <<>>]

Idle ==
    /\ pc = "idle"
    /\ req = NoRequest
    /\ orig = NoOrig
    /\ urlObj = [r \in {ReqURLRef, ProxyURLRef} |-> NilURL]
    /\ hdrObj = [r \in {ReqHeaderRef, NewHeaderRef} |-> EmptyHeader]
    /\ bodyObj = [r \in {ReqBodyRef} |-> [data |-> <<>>, pos |-> 0]]
    /\ proxyReq = NoProxyReq
    /\ sent = NotSent
    /\ proxyRes = NoResponse
    /\ w = FreshWriter
    /\ clientC = "none"
    /\ fbC = "none"
    /\ clientMsgs = <<>>
    /\ affirms = FALSE
    /\ outcome = "none"
    /\ callerSent = <<>>
    /\ backendSent = <<>>
    /\ fbMsgs = <<>>

\* The connections the listener of Forwarding accepts, by the pair each
\* makes with the backend connection dialled for it.
Pairs == {"p1", "p2"}

\* The two connections of a pair, as handleRequest names them.
Conns == {"conn", "proxy"}

\* The two copy tasks of a pair: copyIO(conn, proxy) and copyIO(proxy, conn).
Dirs == {"up", "down"}

Src(d) == IF d = "up" THEN "conn" ELSE "proxy"

Dest(d) == IF d = "up" THEN "proxy" ELSE "conn"

\* A copy task that was not started.
NotStarted == [at |-> "none", left |-> <<>>]

\* Forwarding has listened on :5000 and is in its accept loop.
FwdInit ==
    /\ fwd = "accepting"
    /\ hr = [p \in Pairs |-> "none"]
    /\ sock = [p \in Pairs |-> [c \in Conns |-> "none"]]
    /\ cp = [p \in Pairs |-> [d \in Dirs |-> NotStarted]]
    /\ sentBy = [p \in Pairs |-> [c \in Conns |-> <<>>]]
    /\ pend = [p \in Pairs |-> [c \in Conns |-> <<>>]]
    /\ eof = [p \in Pairs |-> [c \in Conns |-> FALSE]]
    /\ got = [p \in Pairs |-> [c \in Conns |-> <<>>]]

\* StartBrowser: http.ListenAndServe(":3000", reg) is serving.
\* The nil *BaseEntity.
NilEntity == [ID |-> "", Buckets |-> <<>>, EntityType |-> ""]

\* No option passed.
NoOptions == [id |-> "", tableName |-> "", bucketName |-> <<>>, numBuckets |-> 0,
              bucketNames |-> <<>>]

\* NewBase was not called.
BaseInit ==
    /\ entPc = "idle"
    /\ given = NoOptions
    /\ ent = NilEntity
    /\ entErr = ""

\* StartBrowser: http.ListenAndServe(":3000", reg) is serving.
Init == running = TRUE /\ Idle /\ FwdInit /\ BaseInit

\* ----------------------------------------------------------------- handler

\* url := req.URL: the local url is the request's own URL object.
LocalURL(r) == r.URL

\* Clone gone wrong: proxyReq.Header = req.Header shares the caller's map.
CloneTarget_Alias(ref) == ref

\* req.Header.Clone(): a deep copy in a new map.
CloneTarget(ref) == NewHeaderRef

\* The login test gone wrong: the path is not looked at.
IsLogin_AnyPost(method, path) == method = "POST"

\* req.Method == "POST" && strings.Contains(url.Path, "/login")
IsLogin(method, path) == method = "POST" /\ Contains(path, <<"/", "login">>)

\* strings.Contains(url.Path, "api/command")
IsCommand(path) == Contains(path, <<"api", "/", "command">>)

\* foundIndDB := true (the database is not queried)
foundIndDB == TRUE

\* The part of a body reader that has not been read yet.
Unread(b) == SubSeq(b.data, b.pos + 1, Len(b.data))

\* The server hands a request to fileBrowser, which rewrites the URL, builds
\* proxyReq and gives it a cloned header set with Host and X-Forwarded-For.
\* hs: the request carries the websocket handshake headers (read on the
\* command path only); a: the identity lookup would affirm the credential
\* (of interest for a login only).
Serve(m, p, q, h, b, hs, a) ==
    /\ running
    /\ pc = "idle"
    /\ hs => IsCommand(p)
    /\ a => IsLogin(m, p)
    /\ LET inURL == [Scheme |-> "", Host |-> "", Path |-> p, RawQuery |-> q]
           r == [Method |-> m, URL |-> ReqURLRef, Header |-> ReqHeaderRef, Body |-> ReqBodyRef,
                 Host |-> InHost, RemoteAddr |-> InRemoteAddr, Handshake |-> hs]
           url == LocalURL(r)
           u0 == [urlObj EXCEPT ![ReqURLRef] = inURL]
           u1 == [u0 EXCEPT ![url].Scheme = BackendScheme, ![url].Host = BackendHost]
           u2 == [u1 EXCEPT ![ProxyURLRef] = URLParse(URLString(u1[url]))]
           h0 == [hdrObj EXCEPT ![ReqHeaderRef] = h]
           c == CloneTarget(r.Header)
           h1 == [h0 EXCEPT ![c] = h0[r.Header]]
           h2 == [h1 EXCEPT ![c] = HeaderSet(@, "Host", r.Host)]
           h3 == [h2 EXCEPT ![c] = HeaderSet(@, "X-Forwarded-For", r.RemoteAddr)]
       IN  /\ req' = r
           /\ orig' = [Method |-> m, URL |-> inURL, Header |-> h, Body |-> b,
                       Host |-> InHost, RemoteAddr |-> InRemoteAddr]
           /\ urlObj' = u2
           /\ hdrObj' = h3
           /\ bodyObj' = [bodyObj EXCEPT ![ReqBodyRef] = [data |-> b, pos |-> 0]]
           /\ proxyReq' = [Method |-> m, URL |-> ProxyURLRef, Header |-> c, Body |-> r.Body]
    /\ affirms' = a
    /\ pc' = "built"
    /\ UNCHANGED <<running, sent, proxyRes, w, clientC, fbC, clientMsgs, outcome>>
    /\ UNCHANGED <<bridgeVars, notGateway>>

\* The custom login: the body is decoded from req.Body, a decoding error
\* panics (net/http recovers the panic and drops the connection), and the
\* auth header is set to the decoded username when foundIndDB.  The decoder
\* reads the stream in chunks: at least the value it decodes, at most all.
Login ==
    /\ running
    /\ pc = "built"
    /\ IsLogin(req.Method, urlObj[LocalURL(req)].Path)
    /\ LET d == Decode(Unread(bodyObj[req.Body]))
       IN  IF d.err
           THEN /\ pc' = "done"
                /\ outcome' = "panic: decode"
                /\ \E n \in 0..Len(bodyObj[req.Body].data) :
                      /\ (bodyObj[req.Body].data # <<>>) => n >= 1
                      /\ bodyObj' = [bodyObj EXCEPT ![req.Body].pos = n]
                /\ UNCHANGED hdrObj
           ELSE /\ \E n \in d.end..Len(bodyObj[req.Body].data) :
                      bodyObj' = [bodyObj EXCEPT ![req.Body].pos = n]
                /\ hdrObj' = IF foundIndDB
                             THEN [hdrObj EXCEPT ![proxyReq.Header] =
                                       HeaderSet(@, fbAuthHeader, d.us.Username)]
                             ELSE hdrObj
                /\ pc' = "intercepted"
                /\ UNCHANGED outcome
    /\ UNCHANGED <<running, req, orig, urlObj, proxyReq, sent, proxyRes, w, clientC, fbC,
                   clientMsgs, affirms>>
    /\ UNCHANGED <<bridgeVars, notGateway>>

\* The handler is past the login block.
PastLogin ==
    \/ pc = "intercepted"
    \/ pc = "built" /\ ~IsLogin(req.Method, urlObj[LocalURL(req)].Path)

\* What upgrader.Upgrade answers when it refuses the handshake.
StatusBadRequest == 400

StatusMethodNotAllowed == 405

\* upgrader.Upgrade(w, req, nil) succeeds on a GET that carries the
\* websocket handshake headers.
HandshakeOK(r) == r.Handshake /\ r.Method = "GET"

\* The command path: the caller is upgraded, the backend is dialled on the
\* ws URL (a failed dial is log.Fatal: the process exits), one fixed text
\* message is written to the caller, and the handler returns.  Neither
\* connection is closed by the handler.
Upgrade ==
    /\ running
    /\ PastLogin
    /\ IsCommand(urlObj[LocalURL(req)].Path)
    /\ urlObj' = [urlObj EXCEPT ![LocalURL(req)].Scheme = WsScheme]
    /\ \/ /\ ~HandshakeOK(req)
          /\ w' = [w EXCEPT !.Status = IF req.Handshake THEN StatusMethodNotAllowed
                                       ELSE StatusBadRequest]
          /\ outcome' = "upgrade failed"
          /\ pc' = "done"
          /\ UNCHANGED <<running, clientC, fbC, clientMsgs>>
       \/ /\ HandshakeOK(req)
          /\ \E dialed \in BOOLEAN :
                IF ~dialed
                THEN /\ running' = FALSE
                     /\ clientC' = "aborted"
                     /\ outcome' = "fatal: dial"
                     /\ pc' = "exited"
                     /\ UNCHANGED <<fbC, clientMsgs, w>>
                ELSE /\ clientC' = "open"
                     /\ fbC' = "open"
                     /\ \E written \in BOOLEAN :
                           /\ clientMsgs' = IF written THEN <<"message">> ELSE <<>>
                           /\ outcome' = IF written THEN "upgraded" ELSE "upgraded: write failed"
                     /\ pc' = "done"
                     /\ UNCHANGED <<running, w>>
    /\ UNCHANGED <<req, orig, hdrObj, bodyObj, proxyReq, sent, proxyRes, affirms>>
    /\ UNCHANGED <<bridgeVars, notGateway>>

\* The messages the peers of the bridge send.
CallerMsgs == {"ls"}

BackendMsgs == {"out"}

\* The caller sends a message on its upgraded connection.  No statement of
\* the handler reads clientC: the message stays unread.
CallerSends ==
    /\ running
    /\ clientC = "open"
    /\ Len(callerSent) < MaxMsgs
    /\ \E m \in CallerMsgs : callerSent' = Append(callerSent, m)
    /\ UNCHANGED <<running, pc, req, orig, urlObj, hdrObj, bodyObj, proxyReq, sent, proxyRes,
                   w, clientC, fbC, clientMsgs, affirms, outcome, backendSent, fbMsgs>>
    /\ UNCHANGED notGateway

\* The backend sends a message on the dialled connection.  No statement of
\* the handler reads fbC: the message stays unread.
BackendSends ==
    /\ running
    /\ fbC = "open"
    /\ Len(backendSent) < MaxMsgs
    /\ \E m \in BackendMsgs : backendSent' = Append(backendSent, m)
    /\ UNCHANGED <<running, pc, req, orig, urlObj, hdrObj, bodyObj, proxyReq, sent, proxyRes,
                   w, clientC, fbC, clientMsgs, affirms, outcome, callerSent, fbMsgs>>
    /\ UNCHANGED notGateway

\* client.Do(proxyReq): the transport sends the method, the URL, the header
\* set and whatever is left to read of the body; an error panics.
Forward ==
    /\ running
    /\ PastLogin
    /\ ~IsCommand(urlObj[LocalURL(req)].Path)
    /\ \/ /\ outcome' = "panic: do"
          /\ pc' = "done"
          /\ UNCHANGED <<sent, proxyRes, bodyObj>>
       \/ /\ sent' = [ok |-> TRUE,
                      Method |-> proxyReq.Method,
                      URL |-> URLString(urlObj[proxyReq.URL]),
                      Header |-> hdrObj[proxyReq.Header],
                      Body |-> Unread(bodyObj[proxyReq.Body])]
          /\ bodyObj' = [bodyObj EXCEPT ![proxyReq.Body].pos = Len(bodyObj[proxyReq.Body].data)]
          /\ \E res \in Responses : proxyRes' = res
          /\ pc' = "responded"
          /\ UNCHANGED outcome
    /\ UNCHANGED <<running, req, orig, urlObj, hdrObj, proxyReq, w, clientC, fbC,
                   clientMsgs, affirms>>
    /\ UNCHANGED <<bridgeVars, notGateway>>

\* The inner loop over one header's values: Content-Type of a resource whose
\* extension has the type "text/css" is set to the value at hand and the
\* loop breaks; any other value is added.
RECURSIVE CopyValues(_, _, _, _, _)
CopyValues(wh, header, values, i, ext) ==
    IF i > Len(values) THEN wh
    ELSE IF header = "Content-Type" /\ TypeByExtension(ext) = "text/css"
         THEN HeaderSet(wh, header, values[i])
    ELSE CopyValues(HeaderAdd(wh, header, values[i]), header, values, i + 1, ext)

\* The outer loop over proxyRes.Header.Clone(); the headers do not interact,
\* so the order of the map iteration does not show.
RECURSIVE CopyHeaders(_, _, _, _)
CopyHeaders(wh, names, resHeader, ext) ==
    IF names = {} THEN wh
    ELSE LET header == CHOOSE n \in names : TRUE
         IN  CopyHeaders(CopyValues(wh, header, resHeader[header], 1, ext),
                         names \ {header}, resHeader, ext)

\* The status the caller receives: WriteHeader is never called, so the first
\* write of io.Copy (or the return of the handler) commits StatusOK.
WrittenStatus(res) == StatusOK

\* The relay: the response headers are copied to w, then the body.
Relay ==
    /\ running
    /\ pc = "responded"
    /\ LET ext == Ext(URLString(urlObj[LocalURL(req)]))
       IN  w' = [Status |-> WrittenStatus(proxyRes),
                 Header |-> CopyHeaders(w.Header, HeaderNames, proxyRes.Header, ext),
                 Body |-> w.Body \o proxyRes.Body]
    /\ outcome' = "relayed"
    /\ pc' = "done"
    /\ UNCHANGED <<running, req, orig, urlObj, hdrObj, bodyObj, proxyReq, sent, proxyRes,
                   clientC, fbC, clientMsgs, affirms>>
    /\ UNCHANGED <<bridgeVars, notGateway>>

\* The handling task is over; the server takes the next request.
Finish ==
    /\ running
    /\ pc = "done"
    /\ pc' = "idle"
    /\ req' = NoRequest
    /\ orig' = NoOrig
    /\ urlObj' = [r \in {ReqURLRef, ProxyURLRef} |-> NilURL]
    /\ hdrObj' = [r \in {ReqHeaderRef, NewHeaderRef} |-> EmptyHeader]
    /\ bodyObj' = [r \in {ReqBodyRef} |-> [data |-> <<>>, pos |-> 0]]
    /\ proxyReq' = NoProxyReq
    /\ sent' = NotSent
    /\ proxyRes' = NoResponse
    /\ w' = FreshWriter
    /\ clientC' = "none"
    /\ fbC' = "none"
    /\ clientMsgs' = <<>>
    /\ affirms' = FALSE
    /\ outcome' = "none"
    /\ callerSent' = <<>>
    /\ backendSent' = <<>>
    /\ fbMsgs' = <<>>
    /\ UNCHANGED <<running, notGateway>>

\* http.ListenAndServe: the idle server reads a request under the route and
\* calls the handler on it.
Accept ==
    /\ running
    /\ pc = "idle"
    /\ \E m \in Methods, p \in Paths, q \in Queries, h \in InHeaders, b \in Bodies,
          hs \in BOOLEAN, a \in BOOLEAN :
          Serve(m, p, q, h, b, hs, a)

Next ==
    \/ Accept
    \/ Login
    \/ Upgrade
    \/ CallerSends
    \/ BackendSends
    \/ Forward
    \/ Relay
    \/ Finish

Spec == Init /\ [][Next]_vars

\* ---------------------------------------------------- byte-stream forwarder

\* A panic outside any recover ends the process: the operating system tears
\* down every connection the process still holds open.
Crashed(s) ==
    [p \in Pairs |-> [c \in Conns |-> IF s[p][c] = "open" THEN "aborted" ELSE s[p][c]]]

\* ln.Accept() returns a connection and go handleRequest(conn) starts.
AcceptConn(p) ==
    /\ fwd = "accepting"
    /\ sock[p]["conn"] = "none"
    /\ sock' = [sock EXCEPT ![p]["conn"] = "open"]
    /\ hr' = [hr EXCEPT ![p] = "dialing"]
    /\ UNCHANGED <<fwd, cp, sentBy, pend, eof, got, gwVars, baseVars>>

\* ln.Accept() returns an error: panic(err).
AcceptFails ==
    /\ fwd = "accepting"
    /\ fwd' = "panic: accept"
    /\ sock' = Crashed(sock)
    /\ UNCHANGED <<hr, cp, sentBy, pend, eof, got, gwVars, baseVars>>

\* handleRequest: net.Dial to the backend; an error panics, otherwise the two
\* copy tasks are started and handleRequest returns.
Dial(p) ==
    /\ fwd = "accepting"
    /\ hr[p] = "dialing"
    /\ \/ /\ hr' = [hr EXCEPT ![p] = "failed"]
          /\ fwd' = "panic: dial"
          /\ sock' = Crashed(sock)
          /\ UNCHANGED cp
       \/ /\ hr' = [hr EXCEPT ![p] = "returned"]
          /\ sock' = [sock EXCEPT ![p]["proxy"] = "open"]
          /\ cp' = [cp EXCEPT ![p] = [d \in Dirs |-> [at |-> "copy", left |-> <<>>]]]
          /\ UNCHANGED fwd
    /\ UNCHANGED <<sentBy, pend, eof, got, gwVars, baseVars>>

\* The deferred calls of copyIO, in the order they run: last deferred first.
Deferred_SrcOnly(src, dest) == <<src>>

Deferred(src, dest) == <<dest, src>>

\* One round of io.Copy(dest, src): Read on src fails when src was closed
\* here, returns bytes when some are pending, and returns EOF when the peer
\* has ended its stream; Write on dest fails when dest is not open.  io.Copy
\* returns on EOF and on any error, and the deferred calls become due.
CopyStep(p, d) ==
    /\ fwd = "accepting"
    /\ cp[p][d].at = "copy"
    /\ LET src == Src(d)
           dest == Dest(d)
           returns == [cp EXCEPT ![p][d] = [at |-> "defer", left |-> Deferred(src, dest)]]
       IN  IF sock[p][src] # "open"
           THEN cp' = returns /\ UNCHANGED <<pend, got>>
           ELSE IF pend[p][src] # <<>>
           THEN \E k \in 1..Len(pend[p][src]) :
                   /\ pend' = [pend EXCEPT ![p][src] = SubSeq(@, k + 1, Len(@))]
                   /\ IF sock[p][dest] = "open"
                      THEN /\ got' = [got EXCEPT ![p][dest] = @ \o SubSeq(pend[p][src], 1, k)]
                           /\ UNCHANGED cp
                      ELSE cp' = returns /\ UNCHANGED got
           ELSE /\ eof[p][src]
                /\ cp' = returns
                /\ UNCHANGED <<pend, got>>
    /\ UNCHANGED <<fwd, hr, sock, sentBy, eof, gwVars, baseVars>>

\* copyIO returns: the next deferred Close runs.  Closing a connection that
\* is closed already returns an error nobody looks at.
RunDeferred(p, d) ==
    /\ fwd = "accepting"
    /\ cp[p][d].at = "defer"
    /\ LET c == Head(cp[p][d].left)
           rest == Tail(cp[p][d].left)
       IN  /\ sock' = [sock EXCEPT ![p][c] = IF @ = "open" THEN "closed" ELSE @]
           /\ cp' = [cp EXCEPT ![p][d] =
                        [at |-> IF rest = <<>> THEN "returned" ELSE "defer", left |-> rest]]
    /\ UNCHANGED <<fwd, hr, sentBy, pend, eof, got, gwVars, baseVars>>

\* The peer of a connection (the client of conn, the backend of proxy) sends
\* one more byte; each byte names its pair, its connection and its place.
PeerSends(p, c) ==
    /\ sock[p][c] = "open"
    /\ ~eof[p][c]
    /\ Len(sentBy[p][c]) < MaxBytes
    /\ LET b == <<p, c, Len(sentBy[p][c]) + 1>>
       IN  /\ sentBy' = [sentBy EXCEPT ![p][c] = Append(@, b)]
           /\ pend' = [pend EXCEPT ![p][c] = Append(@, b)]
    /\ UNCHANGED <<fwd, hr, sock, cp, eof, got, gwVars, baseVars>>

\* The peer of a connection ends its stream.
PeerEnds(p, c) ==
    /\ sock[p][c] = "open"
    /\ ~eof[p][c]
    /\ eof' = [eof EXCEPT ![p][c] = TRUE]
    /\ UNCHANGED <<fwd, hr, sock, cp, sentBy, pend, got, gwVars, baseVars>>

NextFwd ==
    \/ \E p \in Pairs : AcceptConn(p)
    \/ AcceptFails
    \/ \E p \in Pairs : Dial(p)
    \/ \E p \in Pairs, d \in Dirs : CopyStep(p, d)
    \/ \E p \in Pairs, d \in Dirs : RunDeferred(p, d)
    \/ \E p \in Pairs, c \in Conns : PeerSends(p, c)
    \/ \E p \in Pairs, c \in Conns : PeerEnds(p, c)

SpecFwd == Init /\ [][NextFwd]_vars

\* The scheduler runs every task that can run, and a dial ends: each step of
\* a copy task and of handleRequest is taken if it stays possible.  A Write
\* is taken to return: the peers drain what is written to them.
FairFwd ==
    /\ \A p \in Pairs : WF_vars(Dial(p))
    /\ \A p \in Pairs, d \in Dirs : WF_vars(CopyStep(p, d))
    /\ \A p \in Pairs, d \in Dirs : WF_vars(RunDeferred(p, d))

\* The forwarder serving one connection.  The pairs share no state but the
\* process itself, so what is eventually true of a pair is decided by the
\* steps of that pair and by the panics that end the process.
OnePair == "p1"

NextFwdOne ==
    \/ AcceptConn(OnePair)
    \/ AcceptFails
    \/ Dial(OnePair)
    \/ \E d \in Dirs : CopyStep(OnePair, d)
    \/ \E d \in Dirs : RunDeferred(OnePair, d)
    \/ \E c \in Conns : PeerSends(OnePair, c)
    \/ \E c \in Conns : PeerEnds(OnePair, c)

SpecFwdFair == Init /\ [][NextFwdOne]_vars /\ FairFwd

\* ------------------------------------------------------------ entity.NewBase

\* strconv.Itoa on a number that is not negative: its decimal digits.
Digits == <<"0", "1", "2", "3", "4", "5", "6", "7", "8", "9">>

RECURSIVE Itoa(_)
Itoa(n) ==
    IF n < 10 THEN <<Digits[n + 1]>>
    ELSE Itoa(n \div 10) \o <<Digits[(n % 10) + 1]>>

\* xfs.NewBucket: a bucket with the identifier it is given, "default" when
\* that is empty.  Identifiers are the pieces they are concatenated from.
NewBucket(id) == [ID |-> IF id = <<>> THEN <<"default">> ELSE id]

\* BaseEntity.CreateBucket: the new bucket is appended to the entity's list.
CreateBucket(e, bID) == [e EXCEPT !.Buckets = Append(@, NewBucket(bID))]

\* The identifier of the i-th bucket: the given name at that place or, with
\* no list of names, the default name, followed by "-" and i when i is not 0.
BucketID(o, usebNames, i) ==
    IF usebNames THEN <<o.bucketNames[i + 1]>>
    ELSE IF i # 0 THEN <<o.defaultBucketName>> \o <<"-">> \o Itoa(i)
    ELSE <<o.defaultBucketName>>

\* The loop that creates the initial buckets, from index i on.
RECURSIVE CreateInitialBuckets(_, _, _, _)
CreateInitialBuckets(e, o, usebNames, i) ==
    IF i < o.numBuckets
    THEN CreateInitialBuckets(CreateBucket(e, BucketID(o, usebNames, i)), o, usebNames, i + 1)
    ELSE e

\* The options struct after every option was applied to its zero value with
\* defaultBucketName "default".
Applied(g) ==
    [id |-> g.id,
     numBuckets |-> g.numBuckets,
     defaultBucketName |-> IF g.bucketName = <<>> THEN "default" ELSE g.bucketName[1],
     bucketNames |-> g.bucketNames,
     tableName |-> g.tableName]

\* NewBase on the options g, with uuid what uuid.New().String() would give.
NewBase(g, uuid) ==
    LET o0 == Applied(g)
        o1 == IF o0.id = "" THEN [o0 EXCEPT !.id = uuid] ELSE o0
        usebNames == Len(o1.bucketNames) > 0
        o2 == IF o1.numBuckets = 0 THEN [o1 EXCEPT !.numBuckets = 1] ELSE o1
        e == [ID |-> o1.id, Buckets |-> <<>>, EntityType |-> o1.tableName]
    IN  IF o1.tableName = ""
        THEN [ent |-> NilEntity, err |-> "Must specify the table name"]
        ELSE IF usebNames /\ o1.defaultBucketName # "default"
        THEN [ent |-> NilEntity, err |-> "Use only one of BucketNames, BucketName"]
        ELSE IF usebNames /\ Len(o1.bucketNames) # o1.numBuckets
        THEN [ent |-> NilEntity, err |-> "Number of bucket names must match the numBuckets"]
        ELSE [ent |-> CreateInitialBuckets(e, o2, usebNames, 0), err |-> ""]

\* The options a caller passes.
IDs == {"", "alice"}

UUIDs == {"uuid-1", "uuid-2"}

TableNames == {"", "users"}

BucketNameOptions == {<<>>, <<"img">>, <<"default">>}

BucketNamesOptions == Lists({"a", "b"}, MaxBuckets)

Options ==
    [id : IDs, tableName : TableNames, bucketName : BucketNameOptions,
     numBuckets : 0..MaxBuckets, bucketNames : BucketNamesOptions]

\* A caller calls NewBase and it returns.
CallNewBase ==
    /\ entPc = "idle"
    /\ \E g \in Options, uuid \in UUIDs :
          /\ given' = g
          /\ ent' = NewBase(g, uuid).ent
          /\ entErr' = NewBase(g, uuid).err
    /\ entPc' = "returned"
    /\ UNCHANGED <<gwVars, fwdVars>>

\* The caller is done with what NewBase returned.
DropBase ==
    /\ entPc = "returned"
    /\ entPc' = "idle"
    /\ given' = NoOptions
    /\ ent' = NilEntity
    /\ entErr' = ""
    /\ UNCHANGED <<gwVars, fwdVars>>

NextBase ==
    \/ CallNewBase
    \/ DropBase

SpecBase == Init /\ [][NextBase]_vars

\* ------------------------------------------------------------- properties

\* The outbound header set, as proxyReq holds it.
OutHeader == hdrObj[proxyReq.Header]

\* The inbound header set, as req holds it now.
InHeader == hdrObj[req.Header]

AuthName == CanonicalMIMEHeaderKey(fbAuthHeader)

\* A request is being handled or has just been handled.
Handling == pc # "idle"

\* The path the caller asked for contains the login segment.
LoginPath == Contains(orig.URL.Path, <<"/", "login">>)

\* The path the caller asked for is the command (upgrade) path.
CommandPath == Contains(orig.URL.Path, <<"api", "/", "command">>)

\* The caller sent a login request: POST to a path with the login segment.
LoginRequest == orig.Method = "POST" /\ LoginPath

\* The whole body is one JSON object that decodes into a credential record.
ValidCredentialJSON(b) == ~Decode(b).err /\ Decode(b).end = Len(b)

\* The path the caller asked for ends in .css.
CssPath ==
    LET p == orig.URL.Path
    IN  Len(p) >= 2 /\ p[Len(p) - 1] = "." /\ p[Len(p)] = "css"

\* a occurs in b as a subsequence, in order.
RECURSIVE IsSubsequence(_, _)
IsSubsequence(a, b) ==
    IF a = <<>> THEN TRUE
    ELSE IF b = <<>> THEN FALSE
    ELSE IF Head(a) = Head(b) THEN IsSubsequence(Tail(a), Tail(b))
    ELSE IsSubsequence(a, Tail(b))

\* C1: no per-connection or per-request failure (a failed backend dial, a
\* failed upgrade handshake, a malformed login payload, a relay error)
\* terminates the listening process: after any of them the gateway is still
\* running.
C1_FailureLeavesGatewayRunning ==
    outcome \in {"panic: decode", "panic: do", "upgrade failed", "fatal: dial",
                 "upgraded: write failed"}
        => running

\* C2: for a login request whose body decodes, the outbound header set
\* carries the trusted-identity header, set to the decoded username, if and
\* only if the identity lookup affirms the credential; otherwise the header
\* is absent.
C2_IdentityHeaderIffAffirmed ==
    (LoginRequest /\ pc = "intercepted")
        => IF affirms
           THEN OutHeader[AuthName] = <<Decode(orig.Body).us.Username>>
           ELSE OutHeader[AuthName] = <<>>

\* C3: a login request whose body is not valid JSON for a credential record
\* fails (the handler aborts on the decoding error) and is never forwarded:
\* no outbound request is sent for it.
C3_InvalidLoginBodyNeverForwarded ==
    (LoginRequest /\ ~ValidCredentialJSON(orig.Body))
        => /\ ~sent.ok
           /\ pc \in {"intercepted", "responded", "done", "exited"}
                  => outcome = "panic: decode"

\* C4: for every login request that is intercepted and then forwarded, the
\* body the backend receives is the same byte sequence as the inbound body.
C4_LoginBodyForwardedIntact ==
    (LoginRequest /\ sent.ok) => sent.Body = orig.Body

C6_InboundHeaderUnchanged ==
    Handling => /\ InHeader = orig.Header
                /\ req.Header # proxyReq.Header

C6_Witness ==
    /\ LoginRequest
    /\ pc = "done"
    /\ outcome = "relayed"
    /\ orig.Header[AuthName] # <<>>
    /\ sent.Header[AuthName] # orig.Header[AuthName]
    /\ sent.Header["X-Forwarded-For"] # orig.Header["X-Forwarded-For"]

\* C7 as stated: the outbound header set contains every name/value pair of
\* the inbound set, multi-value order preserved, plus Host set to the
\* request's declared host and the forwarded-address field set to the remote
\* peer's address.
C7_EveryInboundPairKept ==
    Handling
        => /\ \A n \in HeaderNames : IsSubsequence(orig.Header[n], OutHeader[n])
           /\ IsSubsequence(<<orig.Host>>, OutHeader["Host"])
           /\ IsSubsequence(<<orig.RemoteAddr>>, OutHeader["X-Forwarded-For"])

\* The login block has set the identity header on the outbound set.
IdentityInjected ==
    /\ LoginRequest
    /\ ~Decode(orig.Body).err
    /\ pc \in {"intercepted", "responded", "done", "exited"}

\* C7 as amended: the outbound header set carries, under every name other
\* than Host, the forwarded-address field and (once a login has been
\* intercepted) the trusted-identity header, exactly the inbound value list;
\* Host holds only the request's declared host and the forwarded-address
\* field only the remote peer's address, whatever the caller sent under
\* those names; an intercepted login's identity header holds only the
\* decoded username.
C7_OtherInboundPairsKept ==
    Handling
        => /\ \A n \in HeaderNames \ {"Host", "X-Forwarded-For", AuthName} :
                 OutHeader[n] = orig.Header[n]
           /\ OutHeader["Host"] = <<orig.Host>>
           /\ OutHeader["X-Forwarded-For"] = <<orig.RemoteAddr>>
           /\ OutHeader[AuthName] = IF IdentityInjected
                                    THEN <<Decode(orig.Body).us.Username>>
                                    ELSE orig.Header[AuthName]

C7_Witness ==
    /\ sent.ok
    /\ Len(orig.Header["Accept"]) = MaxValues
    /\ orig.Header["X-Forwarded-For"] # <<>>
    /\ sent.Header["Accept"] = orig.Header["Accept"]
    /\ sent.Header["X-Forwarded-For"] = <<orig.RemoteAddr>>

\* C8: the inbound request is never mutated in place: its target URL
\* (scheme, host, path) is the same during and after handling as the caller
\* sent it, on the forward path and on the upgrade path.
C8_InboundURLUnchanged ==
    Handling => urlObj[req.URL] = orig.URL

\* C9: the relay passes the backend's status through: the status the caller
\* receives equals the status of the backend's response.
C9_StatusPassedThrough ==
    outcome = "relayed" => w.Status = proxyRes.Status

\* C10: for a backend response to a path ending in .css that carries a
\* Content-Type, the Content-Type relayed to the caller has exactly one
\* value, text/css, however many values the backend sent and whatever they
\* were.
C10_CssContentTypeForced ==
    (outcome = "relayed" /\ CssPath /\ proxyRes.Header["Content-Type"] # <<>>)
        => w.Header["Content-Type"] = <<"text/css">>

\* C11: for every backend response to a path that does not end in .css,
\* whatever the query string is, every backend header value is relayed: under
\* each header name the caller receives the values the backend sent, as many
\* and in the same order.
C11_OtherPathsKeepEveryHeaderValue ==
    (outcome = "relayed" /\ ~CssPath)
        => \A n \in HeaderNames : w.Header[n] = proxyRes.Header[n]

C11_Witness ==
    /\ outcome = "relayed"
    /\ ~CssPath
    /\ orig.URL.RawQuery = <<"v=1", ".", "css">>
    /\ Len(proxyRes.Header["Content-Type"]) = MaxValues
    /\ Len(proxyRes.Header["Set-Cookie"]) = 2
    /\ w.Header["Content-Type"] = proxyRes.Header["Content-Type"]

\* The login endpoint under the forwarded prefix.
LoginEndpoint == fbBaseURL \o <<"/", "api", "/", "login">>

\* The command endpoint under the forwarded prefix, and the paths below it.
CommandEndpoint == fbBaseURL \o <<"/", "api", "/", "command">>

UnderCommandEndpoint ==
    LET p == orig.URL.Path
        n == Len(CommandEndpoint)
    IN  /\ Len(p) >= n
        /\ SubSeq(p, 1, n) = CommandEndpoint
        /\ Len(p) > n => p[n + 1] = "/"

\* The handler has read the body for credentials: the decoder succeeded or
\* it panicked.
BodyReadForCredentials ==
    \/ pc = "intercepted"
    \/ IdentityInjected
    \/ outcome = "panic: decode"

\* The handler has entered the upgrade bridge: its first statement turns the
\* scheme of the URL to ws.
BridgeEntered == Handling /\ urlObj[LocalURL(req)].Scheme = WsScheme

\* C19: the login interceptor is triggered by exactly the login endpoint and
\* the upgrade bridge by exactly the command endpoint: a request whose body
\* is read for credentials asked for the login endpoint, a request that
\* enters the upgrade bridge asked for the command endpoint, and no request
\* does both.
C19_ExactEndpointsTrigger ==
    /\ BodyReadForCredentials => orig.URL.Path = LoginEndpoint
    /\ BridgeEntered => UnderCommandEndpoint
    /\ ~(BodyReadForCredentials /\ BridgeEntered)

\* C20: a request that is not a login request never forwards a
\* caller-supplied trusted-identity header: the request sent to the backend
\* for it carries no value under that name.
C20_NonLoginForwardsNoIdentity ==
    (sent.ok /\ ~LoginRequest) => sent.Header[AuthName] = <<>>

\* a is an initial part of b.
IsPrefix(a, b) == Len(a) <= Len(b) /\ SubSeq(b, 1, Len(a)) = a

\* The bridge is up: the caller is upgraded and the backend is connected.
BridgeUp == clientC = "open" /\ fbC = "open"

\* C12: once the bridge is up it relays and injects no message of its own:
\* the messages the caller has received are an initial part of the messages
\* the backend sent, and the messages the backend has received are an initial
\* part of the messages the caller sent.
C12_BridgeRelaysAndInjectsNothing ==
    BridgeUp => /\ IsPrefix(clientMsgs, backendSent)
                /\ IsPrefix(fbMsgs, callerSent)

\* C13: in every state where the bridge handler has returned from a bridge
\* that was up, both connections of the pair are closed.
C13_ReturnedBridgeHasBothClosed ==
    (pc = "done" /\ outcome \in {"upgraded", "upgraded: write failed"})
        => clientC = "closed" /\ fbC = "closed"

\* C14: when the backend dial fails after the caller was upgraded, the
\* handler returns with the gateway alive and the caller's connection closed
\* by the bridge.
C14_DialFailureClosesCaller ==
    outcome = "fatal: dial" => /\ running
                               /\ pc = "done"
                               /\ clientC = "closed"

\* Both connections of pair p are off the forwarder's hands.
BothClosed(p) == sock[p]["conn"] # "open" /\ sock[p]["proxy"] # "open"

\* A copy task of pair p has completed or failed.
CopyOver(p) == \E d \in Dirs : cp[p][d].at \in {"defer", "returned"}

\* C15: once either direction's copy completes or errors, both connections
\* of the pair are eventually closed; and an accepted connection whose peer
\* has closed does not stay open forever, whether the backend dial succeeds
\* or fails.
C15_CopyOverClosesBoth ==
    \A p \in Pairs :
        /\ CopyOver(p) ~> BothClosed(p)
        /\ \A c \in Conns : (sock[p][c] = "open" /\ eof[p][c]) ~> (sock[p][c] # "open")

\* A pair whose client ended its stream was closed by the deferred calls of
\* its copy tasks, both of them returned, with the process alive.
C15_Witness ==
    /\ fwd = "accepting"
    /\ eof["p1"]["conn"]
    /\ sock["p1"] = [c \in Conns |-> "closed"]
    /\ \A d \in Dirs : cp["p1"][d].at = "returned"

\* C16: round trip through the forwarder: when both copy tasks of a pair
\* have returned, the bytes that arrived at the backend are the bytes the
\* client sent, and the bytes that arrived at the client are the bytes the
\* backend sent, complete and in order.
C16_RoundTripComplete ==
    \A p \in Pairs :
        (fwd = "accepting" /\ \A d \in Dirs : cp[p][d].at = "returned")
            => /\ got[p]["proxy"] = sentBy[p]["conn"]
               /\ got[p]["conn"] = sentBy[p]["proxy"]

\* C17: no cross-talk, and the pairs fail alone: every byte written to a
\* connection was sent on the other connection of the same pair, and when
\* the dial of one pair fails no connection of a pair whose dial did not
\* fail is torn down.
C17_PairsIndependent ==
    /\ \A p \in Pairs, c \in Conns :
          \A i \in 1..Len(got[p][c]) :
              got[p][c][i][1] = p /\ got[p][c][i][2] # c
    /\ fwd = "panic: dial"
          => \A q \in Pairs : hr[q] # "failed" => \A c \in Conns : sock[q][c] # "aborted"

\* C18: NewBase with BucketName(name), BucketCount(count), count at least 1,
\* and no BucketNames returns an entity with exactly count buckets, created
\* in order with the identifiers name-0, name-1, ..., name-{count-1}.
C18_BucketsNumberedFromZero ==
    (/\ entPc = "returned"
     /\ given.tableName # ""
     /\ given.bucketName # <<>>
     /\ given.numBuckets >= 1
     /\ given.bucketNames = <<>>)
        => /\ entErr = ""
           /\ Len(ent.Buckets) = given.numBuckets
           /\ \A k \in 1..given.numBuckets :
                 ent.Buckets[k].ID = given.bucketName \o <<"-">> \o Itoa(k - 1)

====
